---- MODULE Spec2Model ----
(***************************************************************************)
(* Guess Mosaic (morning-mosaic): the guess evaluator, the daily word      *)
(* selector and the game session of src/app.js.                            *)
(*                                                                         *)
(* Strings are sequences of one-character strings; JavaScript's 0-based    *)
(* positions are the 1-based positions of these sequences.                 *)
(***************************************************************************)
EXTENDS Integers, Sequences, FiniteSets, TLC

VARIABLES eGuess, eTarget, eResult, ePc,   \* one run of evaluateGuess
          now,                              \* the clock, Date.now()
          dWords, dLang, dCalls,            \* calls of dailyIndex
          WORDS, ALLOWED,                   \* the decoded lists, by language
          currentLang, targetWord, attempts, currentGuess, gameOver, firstLoad,
          storage,                          \* localStorage[STORAGE_KEY]
          toast,                            \* toastEl.textContent
          keyboard,                         \* layout of the rendered keyboard
          keyHints,                         \* hint classes of the rendered keys
          firstGuessDay,                    \* history: day attempts[0] was submitted
          hCalls,                           \* results of computeStatuses calls
          swCache,                          \* the service worker's cache CACHE
          swReqs,                           \* the fetch events, in order of arrival
          swPuts,                           \* cache.put calls not yet settled
          swOnline,                         \* whether fetch() reaches the server
          swServer,                         \* the status the server answers with
          frUrl, frAttempt, frPc,           \* one call of fetchRemote
          frLog                             \* the requests fetchRemote has made

evalVars == <<eGuess, eTarget, eResult, ePc>>

dailyVars == <<dWords, dLang, dCalls>>

listVars == <<WORDS, ALLOWED>>

sessionVars == <<currentLang, targetWord, attempts, currentGuess, gameOver, firstLoad,
                 storage, toast, keyboard, keyHints, firstGuessDay>>

gameVars == <<listVars, sessionVars>>

hintVars == <<hCalls>>

workerVars == <<swCache, swReqs, swPuts, swOnline, swServer>>

remoteVars == <<frUrl, frAttempt, frPc, frLog>>

\* no service worker installed, fetchRemote not called
WorkerIdle ==
  /\ swCache = <<>> /\ swReqs = <<>> /\ swPuts = {}
  /\ swOnline = TRUE /\ swServer = 0

RemoteIdle == frUrl = "" /\ frAttempt = 0 /\ frPc = "idle" /\ frLog = <<>>

ToolsIdle == WorkerIdle /\ RemoteIdle

(***************************************************************************)
(* Bounds of the evaluator's inputs.                                       *)
(***************************************************************************)
MaxLen == 3

EvalLetters == {"A", "L", "P"}

\* all strings over S of length 0..n
RECURSIVE StringsUpTo(_, _)
StringsUpTo(S, n) ==
  IF n = 0 THEN {<<>>}
  ELSE LET shorter == StringsUpTo(S, n - 1)
       IN  shorter \cup {Append(w, c) : w \in {v \in shorter : Len(v) = n - 1}, c \in S}

APPLE == <<"A", "P", "P", "L", "E">>
PAPAL == <<"P", "A", "P", "A", "L">>
ALLOY == <<"A", "L", "L", "O", "Y">>
LLAMA == <<"L", "L", "A", "M", "A">>
HOUSE == <<"H", "O", "U", "S", "E">>
BRAVE == <<"B", "R", "A", "V", "E">>

\* the pairs <<guess, target>> the evaluator is run on
EvalInputs ==
  (StringsUpTo(EvalLetters, MaxLen) \X StringsUpTo(EvalLetters, MaxLen))
    \cup {<<PAPAL, APPLE>>, <<LLAMA, ALLOY>>, <<HOUSE, HOUSE>>, <<BRAVE, HOUSE>>,
          <<APPLE, PAPAL>>, <<ALLOY, LLAMA>>}

(***************************************************************************)
(* evaluateGuess (src/app.js 85-110)                                       *)
(***************************************************************************)
\* guess[i] of JavaScript: undefined beyond the end of the string
Undefined == "undefined"

CharAt(s, i) == IF i \in 1..Len(s) THEN s[i] ELSE Undefined

\* counts[ch] > 0, false when counts has no such key (undefined > 0)
CountPositive(counts, ch) == ch \in DOMAIN counts /\ counts[ch] > 0

\* lines 88-92: counts[ch] = (counts[ch] || 0) + 1 for every letter of target
RECURSIVE targetCounts(_, _, _)
targetCounts(target, i, counts) ==
  IF i > Len(target) THEN counts
  ELSE LET ch  == target[i]
           old == IF ch \in DOMAIN counts THEN counts[ch] ELSE 0
       IN  targetCounts(target, i + 1,
             [k \in DOMAIN counts \cup {ch} |-> IF k = ch THEN old + 1 ELSE counts[k]])

\* lines 93-99: first pass, exact matches consume an occurrence
RECURSIVE firstPass(_, _, _, _)
firstPass(guess, target, i, acc) ==
  IF i > Len(target) THEN acc
  ELSE IF CharAt(guess, i) = target[i]
       THEN firstPass(guess, target, i + 1,
              [result |-> [acc.result EXCEPT ![i] = "correct"],
               counts |-> [acc.counts EXCEPT ![guess[i]] = @ - 1]])
       ELSE firstPass(guess, target, i + 1, acc)

\* lines 100-108: second pass, left to right over the positions not correct
RECURSIVE secondPass(_, _, _, _)
secondPass(guess, target, i, acc) ==
  IF i > Len(target) THEN acc
  ELSE IF acc.result[i] = "correct"
       THEN secondPass(guess, target, i + 1, acc)
       ELSE LET g == CharAt(guess, i)
            IN  IF CountPositive(acc.counts, g)
                THEN secondPass(guess, target, i + 1,
                       [result |-> [acc.result EXCEPT ![i] = "present"],
                        counts |-> [acc.counts EXCEPT ![g] = @ - 1]])
                ELSE secondPass(guess, target, i + 1, acc)

\* the second pass without `counts[g] -= 1`
RECURSIVE secondPassNoConsume(_, _, _, _)
secondPassNoConsume(guess, target, i, acc) ==
  IF i > Len(target) THEN acc
  ELSE IF acc.result[i] = "correct"
       THEN secondPassNoConsume(guess, target, i + 1, acc)
       ELSE IF CountPositive(acc.counts, CharAt(guess, i))
            THEN secondPassNoConsume(guess, target, i + 1,
                   [acc EXCEPT !.result[i] = "present"])
            ELSE secondPassNoConsume(guess, target, i + 1, acc)

\* the second pass without `if (result[i] === 'correct') continue`
RECURSIVE secondPassNoSkip(_, _, _, _)
secondPassNoSkip(guess, target, i, acc) ==
  IF i > Len(target) THEN acc
  ELSE LET g == CharAt(guess, i)
       IN  IF CountPositive(acc.counts, g)
           THEN secondPassNoSkip(guess, target, i + 1,
                  [result |-> [acc.result EXCEPT ![i] = "present"],
                   counts |-> [acc.counts EXCEPT ![g] = @ - 1]])
           ELSE secondPassNoSkip(guess, target, i + 1, acc)

evalStart(target) ==
  [result |-> [i \in 1..Len(target) |-> "absent"],
   counts |-> targetCounts(target, 1, <<>>)]

evaluateGuessNoConsume(guess, target) ==
  secondPassNoConsume(guess, target, 1,
    firstPass(guess, target, 1, evalStart(target))).result

evaluateGuessNoSkip(guess, target) ==
  secondPassNoSkip(guess, target, 1,
    firstPass(guess, target, 1, evalStart(target))).result

\* evaluateGuess without its second pass
evaluateGuessFirstPassOnly(guess, target) ==
  firstPass(guess, target, 1, evalStart(target)).result

evaluateGuess(guess, target) ==
  secondPass(guess, target, 1,
    firstPass(guess, target, 1, evalStart(target))).result

(***************************************************************************)
(* Unsigned 32-bit arithmetic.  A value is its four bytes, least           *)
(* significant first; the checker's own integers stop at 2^31 - 1.         *)
(***************************************************************************)
\* x >>> 0 for an integer x: x modulo 2^32, as bytes
ToUint32(x) ==
  <<x % 256, (x \div 256) % 256, (x \div 65536) % 256, (x \div 16777216) % 256>>

\* carry propagation over four column sums, the carry out of the top dropped
Carry(c) ==
  LET k1 == c[1] \div 256
      k2 == (c[2] + k1) \div 256
      k3 == (c[3] + k2) \div 256
  IN  <<c[1] % 256, (c[2] + k1) % 256, (c[3] + k2) % 256, (c[4] + k3) % 256>>

U32Add(a, b) == Carry([i \in 1..4 |-> a[i] + b[i]])

U32Mul(a, b) ==
  Carry(<<a[1] * b[1],
          a[1] * b[2] + a[2] * b[1],
          a[1] * b[3] + a[2] * b[2] + a[3] * b[1],
          a[1] * b[4] + a[2] * b[3] + a[3] * b[2] + a[4] * b[1]>>)

\* a % n for a 32-bit a and 0 < n
U32Mod(a, n) == ((((((a[4] % n) * 256 + a[3]) % n) * 256 + a[2]) % n) * 256 + a[1]) % n

\* (a | 0) % n of JavaScript: a read as a signed 32-bit integer, the
\* remainder taking the sign of the dividend
Int32Rem(a, n) ==
  IF a[4] < 128 THEN U32Mod(a, n)
  ELSE 0 - U32Mod(U32Add(ToUint32(1), [i \in 1..4 |-> 255 - a[i]]), n)

(***************************************************************************)
(* The clock.  Date.now() = now.day * 86400000 + now.ms with               *)
(* 0 <= now.ms < 86400000; the product is beyond the checker's integers,   *)
(* so a reading is kept as the pair.                                       *)
(***************************************************************************)
MsPerDay == 86400000

\* Date.UTC(2025, 0, 1) / 86400000
EpochDay == 20089

\* the first day of a game session and the days the clock may advance
FirstDay == 20088

MaxDays == 2

MsSamples == {0, 1, MsPerDay \div 2, MsPerDay - 1}

ClockReadings(days) == [day : days, ms : MsSamples]

\* Math.floor(Date.now() / 86400000)
dayId(t) == t.day + (t.ms \div MsPerDay)

\* Math.round in place of Math.floor
dayNumberRounded(t) == (t.day + ((2 * t.ms + MsPerDay) \div (2 * MsPerDay))) - EpochDay

\* lines 58-60: Math.floor(Date.now() / 86400000 - epoch)
dayNumber(t) == (t.day + (t.ms \div MsPerDay)) - EpochDay

(***************************************************************************)
(* dailyIndex (src/app.js 56-65)                                           *)
(***************************************************************************)
\* lang.charCodeAt(i) for the language tags of the model
charCodes ==
  [l \in {"en", "uk", "uk-Latn"} |->
     CASE l = "en" -> <<101, 110>>
       [] l = "uk" -> <<117, 107>>
       [] l = "uk-Latn" -> <<117, 107, 45, 76, 97, 116, 110>>]

LangTags == DOMAIN charCodes

\* line 62: h = (h * 31 + lang.charCodeAt(i)) >>> 0
RECURSIVE langHashFrom(_, _, _)
langHashFrom(codes, i, h) ==
  IF i > Len(codes) THEN h
  ELSE langHashFrom(codes, i + 1, U32Add(U32Mul(h, ToUint32(31)), ToUint32(codes[i])))

langHash(lang) == langHashFrom(charCodes[lang], 1, ToUint32(0))

\* the result of mix % 0
NaN == "NaN"

\* line 63: (dayNumber * 1103515245 + 12345 + h) >>> 0.  The JavaScript sum
\* is exact (below 2^53) and >>> 0 reduces it modulo 2^32, so reducing each
\* term first gives the same bytes.
LcgMultiplier == 1103515245

LcgIncrement == 12345

mixOf(t, lang) ==
  U32Add(U32Add(U32Mul(ToUint32(dayNumber(t)), ToUint32(LcgMultiplier)),
                ToUint32(LcgIncrement)),
         langHash(lang))

\* the mix taken with | 0 (signed) in place of >>> 0
dailyIndexSigned(words, lang, t) ==
  IF Len(words) = 0 THEN NaN ELSE Int32Rem(mixOf(t, lang), Len(words))

\* the index of the clock reading t; Date.now() is read once, at line 59
dailyIndex(words, lang, t) ==
  IF Len(words) = 0 THEN NaN ELSE U32Mod(mixOf(t, lang), Len(words))

(***************************************************************************)
(* The evaluator run on one input pair.                                    *)
(***************************************************************************)
EvalInit ==
  /\ \E p \in EvalInputs : eGuess = p[1] /\ eTarget = p[2]
  /\ eResult = <<>>
  /\ ePc = "ready"

EvalIdle == eGuess = <<>> /\ eTarget = <<>> /\ eResult = <<>> /\ ePc = "idle"

\* a call evaluateGuess(eGuess, eTarget); the function has no throw statement
Evaluate ==
  /\ ePc = "ready"
  /\ eResult' = evaluateGuess(eGuess, eTarget)
  /\ ePc' = "returned"
  /\ UNCHANGED <<eGuess, eTarget, now, dailyVars, gameVars, hintVars, workerVars, remoteVars>>

(***************************************************************************)
(* dailyIndex called at successive clock readings.                         *)
(***************************************************************************)
MaxWords == 5

MaxCalls == 2

SampleWords == <<"W0", "W1", "W2", "W3", "W4", "W5", "W6", "W7", "W8", "W9">>

\* days before, at and after the 2025-01-01 epoch
DailyDays == {0, EpochDay - 1, EpochDay, 20761}

DailyInit ==
  /\ now \in ClockReadings(DailyDays)
  /\ dWords \in {SubSeq(SampleWords, 1, n) : n \in 0..MaxWords}
  /\ dLang \in LangTags
  /\ dCalls = <<>>

DailyIdle == dWords = <<>> /\ dLang = "en" /\ dCalls = <<>>

DailyCall ==
  /\ Len(dCalls) < MaxCalls
  /\ dCalls' = Append(dCalls, [at |-> now, index |-> dailyIndex(dWords, dLang, now)])
  /\ UNCHANGED <<now, dWords, dLang, evalVars, gameVars, hintVars, workerVars, remoteVars>>

\* time passes: later the same day, or midnight UTC of the next day
Tick(lastDay, samples) ==
  /\ \/ \E m \in samples : m > now.ms /\ now' = [now EXCEPT !.ms = m]
     \/ now.day < lastDay /\ now' = [day |-> now.day + 1, ms |-> 0]
  /\ UNCHANGED <<evalVars, dailyVars, gameVars, hintVars, workerVars, remoteVars>>

DailyTick == \E d \in DailyDays : now.day \in d..(d + MaxDays) /\ Tick(d + MaxDays, MsSamples)

(***************************************************************************)
(* computeStatuses (src/app.js 141-157)                                    *)
(***************************************************************************)
\* status[l] = v
Put(status, l, v) == [k \in DOMAIN status \cup {l} |-> IF k = l THEN v ELSE status[k]]

\* lines 148-153: one letter of one guess folded into the map
noteStatus(status, l, st) ==
  IF st = "correct" THEN Put(status, l, "correct")
  ELSE IF st = "present"
       THEN IF l \in DOMAIN status /\ status[l] = "correct" THEN status
            ELSE Put(status, l, "present")
       ELSE IF l \in DOMAIN status THEN status ELSE Put(status, l, "absent")

\* the same with every observation overwriting the one before
noteStatusLastWins(status, l, st) ==
  Put(status, l, IF st \in {"correct", "present"} THEN st ELSE "absent")

\* lines 145-154: for (i = 0; i < g.length; i++)
RECURSIVE foldGuess(_, _, _, _)
foldGuess(g, evalSt, i, status) ==
  IF i > Len(g) THEN status
  ELSE foldGuess(g, evalSt, i + 1, noteStatus(status, g[i], CharAt(evalSt, i)))

\* lines 143-155: attempts.forEach
RECURSIVE foldAttempts(_, _, _, _)
foldAttempts(atts, target, k, status) ==
  IF k > Len(atts) THEN status
  ELSE foldAttempts(atts, target, k + 1,
         foldGuess(atts[k], evaluateGuess(atts[k], target), 1, status))

RECURSIVE foldGuessLastWins(_, _, _, _)
foldGuessLastWins(g, evalSt, i, status) ==
  IF i > Len(g) THEN status
  ELSE foldGuessLastWins(g, evalSt, i + 1,
         noteStatusLastWins(status, g[i], CharAt(evalSt, i)))

RECURSIVE foldAttemptsLastWins(_, _, _, _)
foldAttemptsLastWins(atts, target, k, status) ==
  IF k > Len(atts) THEN status
  ELSE foldAttemptsLastWins(atts, target, k + 1,
         foldGuessLastWins(atts[k], evaluateGuess(atts[k], target), 1, status))

computeStatusesLastWins(atts, target) == foldAttemptsLastWins(atts, target, 1, <<>>)

\* computeStatuses() reading the globals attempts = atts, targetWord = target
computeStatuses(atts, target) == foldAttempts(atts, target, 1, <<>>)

(***************************************************************************)
(* The game session (src/app.js 30-38, 48-53, 67-81, 203-299, 340-352)     *)
(***************************************************************************)
maxAttempts == 6

Langs == {"en", "uk"}

\* the letters of the keyboard layout and of the physical-key alphabet of a
\* language (the same set in the source); Y and Z stand for Cyrillic letters
Letters == [l \in Langs |-> IF l = "uk" THEN {"Y", "Z"} ELSE {"A", "B"}]

\* what decodeList can deliver: lists of words of several lengths, lists
\* that failed to decode (empty), an allowed set that is absent (empty)
WordConfigs ==
  LET en == <<<<"A", "B">>, <<"B", "A", "A">>>>
      one == <<<<"A", "B">>>>
      uk == <<<<"Y">>, <<"Z">>>>
      ok == {<<"A", "B">>, <<"B", "B">>, <<"B", "A", "A">>, <<"A", "B", "A">>}
  IN  { [words |-> [l \in Langs |-> IF l = "uk" THEN uk ELSE en],
         allowed |-> [l \in Langs |-> IF l = "uk" THEN {} ELSE ok]],
        [words |-> [l \in Langs |-> IF l = "uk" THEN <<>> ELSE one],
         allowed |-> [l \in Langs |-> IF l = "uk" THEN {<<"Z", "Y">>} ELSE ok]],
        [words |-> [l \in Langs |-> IF l = "uk" THEN uk ELSE <<>>],
         allowed |-> [l \in Langs |-> {}]] }

listFor(lang) == IF lang = "uk" THEN WORDS["uk"] ELSE WORDS["en"]

allowedSetFor(lang) == IF lang = "uk" THEN ALLOWED["uk"] ELSE ALLOWED["en"]

\* lines 69-75; manualOverride is null throughout (line 67)
pickWord(lang) ==
  LET words == listFor(lang)
  IN  IF Len(words) = 0 THEN <<>> ELSE words[dailyIndex(words, lang, now) + 1]

\* lines 256-261: the payload written for the session values ses
savedState(ses) ==
  <<[dayId |-> dayId(now), lang |-> ses.currentLang, solution |-> ses.targetWord,
     attempts |-> ses.attempts, currentGuess |-> ses.currentGuess,
     gameOver |-> ses.gameOver,
     firstGuessDay |-> ses.firstGuessDay]>>     \* history, stored with attempts

\* the current values of the session variables
session ==
  [currentLang |-> currentLang, targetWord |-> targetWord, attempts |-> attempts,
   currentGuess |-> currentGuess, gameOver |-> gameOver, firstLoad |-> firstLoad,
   storage |-> storage, toast |-> toast, keyboard |-> keyboard,
   keyHints |-> keyHints, firstGuessDay |-> firstGuessDay]

\* lines 30-38: the module-level values of a freshly loaded page
loadedPage(stored) ==
  [currentLang |-> "en", targetWord |-> <<>>, attempts |-> <<>>,
   currentGuess |-> <<>>, gameOver |-> FALSE, firstLoad |-> TRUE,
   storage |-> stored, toast |-> "", keyboard |-> "none",
   keyHints |-> <<>>, firstGuessDay |-> 0]

\* the session variables take the values ses
Becomes(ses) ==
  /\ currentLang' = ses.currentLang
  /\ targetWord' = ses.targetWord
  /\ attempts' = ses.attempts
  /\ currentGuess' = ses.currentGuess
  /\ gameOver' = ses.gameOver
  /\ firstLoad' = ses.firstLoad
  /\ storage' = ses.storage
  /\ toast' = ses.toast
  /\ keyboard' = ses.keyboard
  /\ keyHints' = ses.keyHints
  /\ firstGuessDay' = ses.firstGuessDay

\* saveState(); renderBoard(); renderKeyboard()
savedAndRendered(ses) ==
  [ses EXCEPT !.storage = savedState(ses), !.keyboard = ses.currentLang,
              !.keyHints = computeStatuses(ses.attempts, ses.targetWord)]

Prefix(s, n) == SubSeq(s, 1, IF Len(s) < n THEN Len(s) ELSE n)

\* lines 271-299: startGame(manualSwitch) run on the session values ses
startGame(manualSwitch, ses) ==
  LET today == dayId(now)
      has == ses.storage # <<>>
      restored == ses.storage[1]
      lang == IF ~manualSwitch /\ ses.firstLoad /\ has /\ restored.dayId = today
              THEN restored.lang ELSE ses.currentLang
      solution == pickWord(lang)
  IN  IF solution = <<>>
      THEN [ses EXCEPT !.currentLang = lang, !.toast = "No words loaded"]
      ELSE IF has /\ restored.dayId = today /\ restored.lang = lang
                  /\ restored.solution = solution
           THEN savedAndRendered(
                  [ses EXCEPT !.currentLang = lang,
                              !.targetWord = restored.solution,
                              !.attempts = Prefix(restored.attempts, maxAttempts),
                              !.currentGuess = Prefix(restored.currentGuess, Len(solution)),
                              !.gameOver = restored.gameOver,
                              !.firstLoad = FALSE,
                              !.firstGuessDay = restored.firstGuessDay])
           ELSE savedAndRendered(
                  [ses EXCEPT !.currentLang = lang, !.targetWord = solution,
                              !.attempts = <<>>, !.currentGuess = <<>>,
                              !.gameOver = FALSE, !.firstLoad = FALSE,
                              !.firstGuessDay = 0])

\* handleKey without the gameOver test of line 204
handleKeyAfterEnd(letter) ==
  IF Len(attempts) >= maxAttempts \/ Len(currentGuess) >= Len(targetWord)
  THEN UNCHANGED sessionVars
  ELSE Becomes(savedAndRendered([session EXCEPT !.currentGuess = Append(currentGuess, letter)]))

\* handleKey without the length test of line 206
handleKeyNoLimit(letter) ==
  IF gameOver \/ Len(attempts) >= maxAttempts
  THEN UNCHANGED sessionVars
  ELSE Becomes(savedAndRendered([session EXCEPT !.currentGuess = Append(currentGuess, letter)]))

\* lines 203-211
handleKey(letter) ==
  IF gameOver \/ Len(attempts) >= maxAttempts \/ Len(currentGuess) >= Len(targetWord)
  THEN UNCHANGED sessionVars
  ELSE Becomes(savedAndRendered([session EXCEPT !.currentGuess = Append(currentGuess, letter)]))

\* lines 213-220
deleteLetter ==
  IF gameOver \/ currentGuess = <<>>
  THEN UNCHANGED sessionVars
  ELSE Becomes(savedAndRendered(
         [session EXCEPT !.currentGuess = SubSeq(currentGuess, 1, Len(currentGuess) - 1)]))

\* submitGuess without the `Not enough letters` check
submitGuessAnyLength ==
  LET allowed == allowedSetFor(currentLang)
      won == currentGuess = targetWord
      lost == Len(attempts) + 1 = maxAttempts
  IN  IF gameOver THEN UNCHANGED sessionVars
      ELSE IF allowed # {} /\ currentGuess \notin allowed /\ currentGuess # targetWord
      THEN Becomes([session EXCEPT !.toast = "Not in word list"])
      ELSE Becomes(savedAndRendered(
             [session EXCEPT !.attempts = Append(attempts, currentGuess),
                             !.firstGuessDay = IF attempts = <<>> THEN dayId(now) ELSE @,
                             !.currentGuess = <<>>,
                             !.gameOver = won \/ lost,
                             !.toast = IF won THEN "You win!"
                                       ELSE IF lost THEN "Game over!" ELSE toast]))

\* submitGuess without the `Not in word list` check
submitGuessNoDictionary ==
  LET won == currentGuess = targetWord
      lost == Len(attempts) + 1 = maxAttempts
  IN  IF gameOver THEN UNCHANGED sessionVars
      ELSE IF Len(currentGuess) # Len(targetWord)
      THEN Becomes([session EXCEPT !.toast = "Not enough letters"])
      ELSE Becomes(savedAndRendered(
             [session EXCEPT !.attempts = Append(attempts, currentGuess),
                             !.firstGuessDay = IF attempts = <<>> THEN dayId(now) ELSE @,
                             !.currentGuess = <<>>,
                             !.gameOver = won \/ lost,
                             !.toast = IF won THEN "You win!"
                                       ELSE IF lost THEN "Game over!" ELSE toast]))

\* submitGuess without `else if (attempts.length === maxAttempts)`
submitGuessNoLoss ==
  LET allowed == allowedSetFor(currentLang)
      won == currentGuess = targetWord
  IN  IF gameOver THEN UNCHANGED sessionVars
      ELSE IF Len(currentGuess) # Len(targetWord)
      THEN Becomes([session EXCEPT !.toast = "Not enough letters"])
      ELSE IF allowed # {} /\ currentGuess \notin allowed /\ currentGuess # targetWord
      THEN Becomes([session EXCEPT !.toast = "Not in word list"])
      ELSE Becomes(savedAndRendered(
             [session EXCEPT !.attempts = Append(attempts, currentGuess),
                             !.firstGuessDay = IF attempts = <<>> THEN dayId(now) ELSE @,
                             !.currentGuess = <<>>,
                             !.gameOver = won,
                             !.toast = IF won THEN "You win!" ELSE toast]))

\* lines 222-244
submitGuess ==
  LET allowed == allowedSetFor(currentLang)
      won == currentGuess = targetWord
      lost == Len(attempts) + 1 = maxAttempts
  IN  IF gameOver THEN UNCHANGED sessionVars
      ELSE IF Len(currentGuess) # Len(targetWord)
      THEN Becomes([session EXCEPT !.toast = "Not enough letters"])
      ELSE IF allowed # {} /\ currentGuess \notin allowed /\ currentGuess # targetWord
      THEN Becomes([session EXCEPT !.toast = "Not in word list"])
      ELSE Becomes(savedAndRendered(
             [session EXCEPT !.attempts = Append(attempts, currentGuess),
                             !.firstGuessDay = IF attempts = <<>> THEN dayId(now) ELSE @,
                             !.currentGuess = <<>>,
                             !.gameOver = won \/ lost,
                             !.toast = IF won THEN "You win!"
                                       ELSE IF lost THEN "Game over!" ELSE toast]))

\* lines 246-254; confirmed is the answer window.confirm would give
switchLanguageWithConfirm(confirmed) ==
  LET hasProgress == Len(attempts) > 0 \/ Len(currentGuess) > 0
      lang == IF currentLang = "en" THEN "uk" ELSE "en"
  IN  IF hasProgress /\ ~gameOver /\ ~confirmed
      THEN UNCHANGED sessionVars
      ELSE Becomes([startGame(TRUE, [session EXCEPT !.currentLang = lang])
                      EXCEPT !.toast = IF lang = "en" THEN "Language: English"
                                       ELSE "Language: Ukrainian"])

(***************************************************************************)
(* The events of a session.                                                *)
(***************************************************************************)
Rendered == keyboard # "none"

\* click on a letter button of the rendered keyboard (line 184)
ClickLetter ==
  /\ Rendered
  /\ \E letter \in Letters[keyboard] : handleKey(letter)
  /\ UNCHANGED <<now, listVars, evalVars, dailyVars, hintVars, workerVars, remoteVars>>

\* click on Enter (line 173)
ClickEnter ==
  /\ Rendered
  /\ submitGuess
  /\ UNCHANGED <<now, listVars, evalVars, dailyVars, hintVars, workerVars, remoteVars>>

\* click on Del (line 196)
ClickDel ==
  /\ Rendered
  /\ deleteLetter
  /\ UNCHANGED <<now, listVars, evalVars, dailyVars, hintVars, workerVars, remoteVars>>

\* click on the language button (line 191)
ClickLang ==
  /\ Rendered
  /\ \E confirmed \in BOOLEAN : switchLanguageWithConfirm(confirmed)
  /\ UNCHANGED <<now, listVars, evalVars, dailyVars, hintVars, workerVars, remoteVars>>

\* lines 343-352: a physical key; other keys are ignored
Keydown ==
  /\ \E key \in {"Enter", "Backspace"} \cup Letters["en"] \cup Letters["uk"] :
        IF gameOver /\ key # "Enter" THEN UNCHANGED sessionVars
        ELSE IF key = "Enter" THEN submitGuess
        ELSE IF key = "Backspace" THEN deleteLetter
        ELSE IF key \in Letters[currentLang] THEN handleKey(key)
        ELSE UNCHANGED sessionVars
  /\ UNCHANGED <<now, listVars, evalVars, dailyVars, hintVars, workerVars, remoteVars>>

\* the page is loaded again: lines 30-38, then startGame(false) of line 340
Reload ==
  /\ Becomes(startGame(FALSE, loadedPage(storage)))
  /\ UNCHANGED <<now, listVars, evalVars, dailyVars, hintVars, workerVars, remoteVars>>

GameTick == Tick(FirstDay + MaxDays, {0, MsPerDay - 1})

(***************************************************************************)
(* The pure functions called on a session that is otherwise at rest:       *)
(* computeStatuses, evaluateGuess and dailyIndex on one attempt history.   *)
(***************************************************************************)
MaxHintLen == 2

MaxHistory == 2

HintLetters == {"A", "L"}

\* the attempt histories of at most n guesses, each as long as the target
Histories(target, n) ==
  UNION {[1..k -> {g \in StringsUpTo(HintLetters, MaxHintLen) : Len(g) = Len(target)}] :
           k \in 0..n}

PureInit ==
  /\ now = [day |-> FirstDay, ms |-> 0]
  /\ targetWord \in StringsUpTo(HintLetters, MaxHintLen)
  /\ attempts \in Histories(targetWord, MaxHistory)
  /\ WORDS = [l \in Langs |-> <<targetWord>>] /\ ALLOWED = [l \in Langs |-> {}]
  /\ currentLang = "en" /\ currentGuess = <<>> /\ gameOver = FALSE /\ firstLoad = FALSE
  /\ storage = <<>> /\ toast = "" /\ keyboard = "en"
  /\ keyHints = computeStatuses(attempts, targetWord) /\ firstGuessDay = 0
  /\ eGuess = (IF attempts = <<>> THEN <<>> ELSE attempts[1]) /\ eTarget = targetWord
  /\ eResult = <<>> /\ ePc = "ready"
  /\ dWords = WORDS["en"] /\ dLang = "en" /\ dCalls = <<>>
  /\ hCalls = <<>> /\ ToolsIdle

\* computeStatuses() with the attempts popped off the array as they are read
ComputeStatusesConsuming ==
  /\ Len(hCalls) < MaxCalls
  /\ hCalls' = Append(hCalls, computeStatuses(attempts, targetWord))
  /\ attempts' = <<>>
  /\ UNCHANGED <<now, evalVars, dailyVars, listVars, currentLang, targetWord,
                 currentGuess, gameOver, firstLoad, storage, toast, keyboard,
                 keyHints, firstGuessDay, workerVars, remoteVars>>

\* a call computeStatuses(): lines 141-157 assign to the local `status` only
ComputeStatuses ==
  /\ Len(hCalls) < MaxCalls
  /\ hCalls' = Append(hCalls, computeStatuses(attempts, targetWord))
  /\ UNCHANGED <<now, evalVars, dailyVars, gameVars, workerVars, remoteVars>>

\* one language with a dictionary that offers several wrong guesses
RoundConfigs ==
  LET two == {<<"A", "B">>, <<"B", "B">>, <<"B", "A">>}
      three == {<<"B", "A", "A">>, <<"A", "B", "A">>, <<"A", "B", "B">>}
  IN  { [words |-> [l \in Langs |-> IF l = "uk" THEN <<>> ELSE <<<<"A", "B">>>>],
         allowed |-> [l \in Langs |-> IF l = "uk" THEN {} ELSE two]],
        [words |-> [l \in Langs |-> IF l = "uk" THEN <<>> ELSE <<<<"B", "A", "A">>>>],
         allowed |-> [l \in Langs |-> IF l = "uk" THEN {} ELSE three]] }

\* the first load of the page, nothing stored yet
FirstLoad(configs) ==
  /\ now = [day |-> FirstDay, ms |-> 0]
  /\ \E c \in configs : WORDS = c.words /\ ALLOWED = c.allowed
  /\ \E ses \in {startGame(FALSE, loadedPage(<<>>))} :
        /\ currentLang = ses.currentLang
        /\ targetWord = ses.targetWord
        /\ attempts = ses.attempts
        /\ currentGuess = ses.currentGuess
        /\ gameOver = ses.gameOver
        /\ firstLoad = ses.firstLoad
        /\ storage = ses.storage
        /\ toast = ses.toast
        /\ keyboard = ses.keyboard
        /\ keyHints = ses.keyHints
        /\ firstGuessDay = ses.firstGuessDay

GameInit == FirstLoad(WordConfigs)

RoundInit == FirstLoad(RoundConfigs)

GameIdle ==
  /\ WORDS = [l \in Langs |-> <<>>] /\ ALLOWED = [l \in Langs |-> {}]
  /\ currentLang = "en" /\ targetWord = <<>> /\ attempts = <<>>
  /\ currentGuess = <<>> /\ gameOver = FALSE /\ firstLoad = TRUE
  /\ storage = <<>> /\ toast = "" /\ keyboard = "none"
  /\ keyHints = <<>> /\ firstGuessDay = 0

(***************************************************************************)
(* The service worker (src/service-worker.js)                              *)
(***************************************************************************)
MaxRequests == 3

INDEX == "./index.html"

\* of the precached ASSETS of lines 2-14, the one the handler names
ASSETS == {INDEX}

\* the URLs requested: the asset and one that install did not cache
Urls == ASSETS \cup {"./words.json"}

Methods == {"GET", "POST"}

\* fetch() resolves for every HTTP status
Statuses == {200, 404}

\* caches.match(url): the cached response, or nothing (undefined)
cachesMatch(cache, url) == IF url \in DOMAIN cache THEN <<cache[url]>> ELSE <<>>

\* c.put(request, copy)
cachePut(cache, url, res) ==
  [u \in DOMAIN cache \cup {url} |-> IF u = url THEN res ELSE cache[u]]

\* the requests for url already answered from the network, and those
\* whose copy is already in the cache
AnsweredFor(url) ==
  {i \in 1..Len(swReqs) : swReqs[i].url = url /\ swReqs[i].src = "network"}

StoredFor(url) == {i \in AnsweredFor(url) : swReqs[i].stored}

\* lines 16-28: after install and activate CACHE holds the ASSETS
WorkerInit ==
  /\ swServer = 200
  /\ swCache = [u \in ASSETS |-> [url |-> u, status |-> 200]]
  /\ swReqs = <<>> /\ swPuts = {}
  /\ swOnline \in BOOLEAN

\* lines 30-32: a fetch event; a request that is not a GET is left to the
\* browser (the listener returns without respondWith)
FetchEvent ==
  /\ Len(swReqs) < MaxRequests
  /\ \E m \in Methods, u \in Urls :
        swReqs' = Append(swReqs,
          [method |-> m, url |-> u,
           pc |-> IF m # "GET" THEN "ignored" ELSE "matching",
           held |-> <<>>, resp |-> <<>>, net |-> FALSE, src |-> "none",
           stored |-> FALSE,
           afterAnswered |-> AnsweredFor(u), afterStored |-> StoredFor(u)])
  /\ UNCHANGED <<swCache, swPuts, swOnline, swServer>>
  /\ UNCHANGED <<evalVars, now, dailyVars, gameVars, hintVars, remoteVars>>

\* the handler with the network asked first, the cache only as a record
CacheLookupNetworkFirst(i) ==
  /\ swReqs[i].pc = "matching"
  /\ swReqs' = [swReqs EXCEPT ![i] =
                  [@ EXCEPT !.pc = "fetching", !.net = TRUE,
                            !.held = cachesMatch(swCache, swReqs[i].url)]]
  /\ UNCHANGED <<swCache, swPuts, swOnline, swServer>>
  /\ UNCHANGED <<evalVars, now, dailyVars, gameVars, hintVars, remoteVars>>

\* lines 35-37: caches.match(e.request) resolves; a hit is the response,
\* a miss calls fetch(e.request)
CacheLookup(i) ==
  /\ swReqs[i].pc = "matching"
  /\ LET cached == cachesMatch(swCache, swReqs[i].url)
     IN  swReqs' = [swReqs EXCEPT ![i] =
                      IF cached # <<>>
                      THEN [@ EXCEPT !.pc = "answered", !.held = cached,
                                     !.resp = cached, !.src = "cache"]
                      ELSE [@ EXCEPT !.pc = "fetching", !.net = TRUE]]
  /\ UNCHANGED <<swCache, swPuts, swOnline, swServer>>
  /\ UNCHANGED <<evalVars, now, dailyVars, gameVars, hintVars, remoteVars>>

\* lines 37-41: fetch resolves; the response is returned and a put of its
\* clone is started, which nothing waits for
FetchResolves(i) ==
  /\ swReqs[i].pc = "fetching" /\ swOnline
  /\ LET res == [url |-> swReqs[i].url, status |-> swServer]
     IN  /\ swReqs' = [swReqs EXCEPT ![i] =
                         [@ EXCEPT !.pc = "answered", !.resp = <<res>>,
                                   !.src = "network"]]
         /\ swPuts' = swPuts \cup {[req |-> i, res |-> res]}
  /\ UNCHANGED <<swCache, swOnline, swServer>>
  /\ UNCHANGED <<evalVars, now, dailyVars, gameVars, hintVars, remoteVars>>

\* line 42: fetch rejects; .catch answers with caches.match("./index.html")
FetchRejects(i) ==
  /\ swReqs[i].pc = "fetching" /\ ~swOnline
  /\ swReqs' = [swReqs EXCEPT ![i] =
                  [@ EXCEPT !.pc = "answered", !.resp = cachesMatch(swCache, INDEX),
                            !.src = "fallback"]]
  /\ UNCHANGED <<swCache, swPuts, swOnline, swServer>>
  /\ UNCHANGED <<evalVars, now, dailyVars, gameVars, hintVars, remoteVars>>

\* line 40: the put completes
PutStores(pt) ==
  /\ pt \in swPuts
  /\ swCache' = cachePut(swCache, pt.res.url, pt.res)
  /\ swPuts' = swPuts \ {pt}
  /\ swReqs' = [swReqs EXCEPT ![pt.req] = [@ EXCEPT !.stored = TRUE]]
  /\ UNCHANGED <<swOnline, swServer>>
  /\ UNCHANGED <<evalVars, now, dailyVars, gameVars, hintVars, remoteVars>>

\* line 40: the put is rejected, or the worker is stopped before it ran
\* (the promise is passed neither to respondWith nor to waitUntil)
PutFails(pt) ==
  /\ pt \in swPuts
  /\ swPuts' = swPuts \ {pt}
  /\ UNCHANGED <<swCache, swReqs, swOnline, swServer>>
  /\ UNCHANGED <<evalVars, now, dailyVars, gameVars, hintVars, remoteVars>>

\* the server starts to answer with another status
ServerChanges ==
  /\ swServer' \in Statuses \ {swServer}
  /\ UNCHANGED <<swCache, swReqs, swPuts, swOnline>>
  /\ UNCHANGED <<evalVars, now, dailyVars, gameVars, hintVars, remoteVars>>

\* the network goes away or comes back
Connectivity ==
  /\ swOnline' = ~swOnline
  /\ UNCHANGED <<swCache, swReqs, swPuts, swServer>>
  /\ UNCHANGED <<evalVars, now, dailyVars, gameVars, hintVars, remoteVars>>

WorkerStep ==
  \E i \in 1..Len(swReqs) : CacheLookup(i) \/ FetchResolves(i) \/ FetchRejects(i)

PutSettles == \E pt \in swPuts : PutStores(pt) \/ PutFails(pt)

(***************************************************************************)
(* fetchRemote (src/raw_words/decode_test.mjs)                             *)
(***************************************************************************)
MaxRedirects == 2

RemoteUrls == {"https://a/words.txt", "http://b/words.txt"}

\* res.statusCode
RemoteStatuses == {200, 302, 404}

\* res.headers.location: absent, or a URL
Locations == {<<>>} \cup {<<u>> : u \in RemoteUrls}

\* line 53: a redirect that names where to go
followsRedirect(status, location) ==
  status >= 300 /\ status < 400 /\ location # <<>>

\* a fourth request after the third error
retriesOnceMore(attempt) == attempt <= 3

\* line 66
retries(attempt) == attempt < 3

\* line 52: lib.get(options, ...) of fetchRemote(url, attempt)
request(url, attempt, cause) ==
  [url |-> url, attempt |-> attempt, cause |-> cause,
   outcome |-> "pending", status |-> 0, location |-> <<>>]

Redirects == {k \in 1..Len(frLog) : frLog[k].outcome = "response"
                 /\ followsRedirect(frLog[k].status, frLog[k].location)}

\* line 90: fetchRemote(url), attempt defaults to 1
FetchRemote ==
  /\ frPc = "idle"
  /\ \E u \in RemoteUrls :
        /\ frUrl' = u /\ frAttempt' = 1
        /\ frLog' = Append(frLog, request(u, 1, "call"))
  /\ frPc' = "requesting"
  /\ UNCHANGED <<evalVars, now, dailyVars, gameVars, hintVars, workerVars>>

\* lines 52-64: the response arrives
Response ==
  /\ frPc = "requesting"
  /\ \E st \in RemoteStatuses, loc \in Locations :
        LET got == [frLog[Len(frLog)] EXCEPT !.outcome = "response",
                                             !.status = st, !.location = loc]
            log == [frLog EXCEPT ![Len(frLog)] = got]
        IN  IF followsRedirect(st, loc)
            THEN /\ Cardinality(Redirects) < MaxRedirects
                 /\ frUrl' = loc[1]
                 /\ frLog' = Append(log, request(loc[1], frAttempt, "redirect"))
                 /\ UNCHANGED <<frAttempt, frPc>>
            ELSE /\ frPc' = IF st # 200 THEN "rejected" ELSE "resolved"
                 /\ frLog' = log
                 /\ UNCHANGED <<frUrl, frAttempt>>
  /\ UNCHANGED <<evalVars, now, dailyVars, gameVars, hintVars, workerVars>>

\* lines 65-71: the request emits 'error'
RequestError ==
  /\ frPc = "requesting"
  /\ frLog' = [frLog EXCEPT ![Len(frLog)] = [@ EXCEPT !.outcome = "error"]]
  /\ frPc' = IF retries(frAttempt) THEN "waiting" ELSE "rejected"
  /\ UNCHANGED <<frUrl, frAttempt>>
  /\ UNCHANGED <<evalVars, now, dailyVars, gameVars, hintVars, workerVars>>

\* lines 67-69: the timer fires, fetchRemote(url, attempt+1)
RetryTimer ==
  /\ frPc = "waiting"
  /\ frAttempt' = frAttempt + 1
  /\ frLog' = Append(frLog, request(frUrl, frAttempt + 1, "retry"))
  /\ frPc' = "requesting"
  /\ UNCHANGED frUrl
  /\ UNCHANGED <<evalVars, now, dailyVars, gameVars, hintVars, workerVars>>

HintsIdle == hCalls = <<>>

vars == <<evalVars, now, dailyVars, gameVars, hintVars, workerVars, remoteVars>>

InitEval ==
  EvalInit /\ DailyIdle /\ GameIdle /\ HintsIdle /\ ToolsIdle
  /\ now = [day |-> FirstDay, ms |-> 0]

NextEval == Evaluate

SpecEval == InitEval /\ [][NextEval]_vars

InitDaily == DailyInit /\ EvalIdle /\ GameIdle /\ HintsIdle /\ ToolsIdle

NextDaily == DailyCall \/ DailyTick

SpecDaily == InitDaily /\ [][NextDaily]_vars

Init == GameInit /\ EvalIdle /\ DailyIdle /\ HintsIdle /\ ToolsIdle

Next ==
  \/ ClickLetter
  \/ ClickEnter
  \/ ClickDel
  \/ ClickLang
  \/ Keydown
  \/ Reload
  \/ GameTick

Spec == Init /\ [][Next]_vars

InitRound == RoundInit /\ EvalIdle /\ DailyIdle /\ HintsIdle /\ ToolsIdle

NextRound ==
  \/ ClickLetter
  \/ ClickEnter
  \/ ClickDel
  \/ Keydown
  \/ Reload

SpecRound == InitRound /\ [][NextRound]_vars

InitPure == PureInit

InitWorker ==
  WorkerInit /\ RemoteIdle /\ EvalIdle /\ DailyIdle /\ GameIdle /\ HintsIdle
  /\ now = [day |-> FirstDay, ms |-> 0]

NextWorker ==
  \/ FetchEvent
  \/ WorkerStep
  \/ PutSettles
  \/ ServerChanges
  \/ Connectivity

SpecWorker == InitWorker /\ [][NextWorker]_vars

InitRemote ==
  RemoteIdle /\ WorkerIdle /\ EvalIdle /\ DailyIdle /\ GameIdle /\ HintsIdle
  /\ now = [day |-> FirstDay, ms |-> 0]

NextRemote ==
  \/ FetchRemote
  \/ Response
  \/ RequestError
  \/ RetryTimer

SpecRemote == InitRemote /\ [][NextRemote]_vars

NextPure == ComputeStatuses \/ Evaluate \/ DailyCall

SpecPure == InitPure /\ [][NextPure]_vars

(***************************************************************************)
(* Properties of evaluateGuess (checked under SpecEval)                    *)
(***************************************************************************)
Positions(s) == 1..Len(s)

\* the number of occurrences of ch in s
Occ(s, ch) == Cardinality({j \in Positions(s) : s[j] = ch})

\* the positions of ch in guess that the result marks correct or present
Marked(guess, result, ch) ==
  {i \in Positions(guess) : guess[i] = ch /\ result[i] \in {"correct", "present"}}

EqualLength == Len(eGuess) = Len(eTarget)

Returned == ePc = "returned"

\* The two-pass rule stated position by position: an exact match is correct;
\* any other position is present exactly when the earlier unmatched positions
\* of its letter have not used up the occurrences the exact matches left.
TwoPassStatus(g, t, i) ==
  IF g[i] = t[i] THEN "correct"
  ELSE LET exact   == Cardinality({j \in Positions(g) : g[j] = g[i] /\ t[j] = g[i]})
           earlier == Cardinality({j \in 1..(i - 1) : g[j] = g[i] /\ t[j] # g[j]})
       IN  IF earlier < Occ(t, g[i]) - exact THEN "present" ELSE "absent"

\* C1: for equal-length guess and target evaluateGuess returns the result of
\* the two-pass algorithm (exact matches first, then left-to-right presents
\* consuming the remaining occurrences); target APPLE with guess PAPAL gives
\* [present, present, correct, absent, present].
C1_TwoPassResult ==
  (Returned /\ EqualLength) =>
     /\ eResult = [i \in Positions(eTarget) |-> TwoPassStatus(eGuess, eTarget, i)]
     /\ (eGuess = PAPAL /\ eTarget = APPLE) =>
           eResult = <<"present", "present", "correct", "absent", "present">>

C1_Witness ==
  /\ Returned /\ eGuess = PAPAL /\ eTarget = APPLE
  /\ eResult = <<"present", "present", "correct", "absent", "present">>

\* C2: for every letter, the positions of that letter marked correct or
\* present are never more than the letter's occurrences in the target.
C2_NoOverCount ==
  (Returned /\ EqualLength) =>
     \A i \in Positions(eGuess) :
        Cardinality(Marked(eGuess, eResult, eGuess[i])) <= Occ(eTarget, eGuess[i])

\* a letter the guess has more often than the target, marked to the limit
C2_Witness ==
  /\ Returned /\ EqualLength
  /\ \E i \in Positions(eGuess) :
        /\ Occ(eGuess, eGuess[i]) > Occ(eTarget, eGuess[i])
        /\ Occ(eTarget, eGuess[i]) > 0
        /\ Cardinality(Marked(eGuess, eResult, eGuess[i])) = Occ(eTarget, eGuess[i])

\* C3: the number of correct marks is the number of exactly matching
\* positions, and the result is all correct exactly when guess = target.
C3_CorrectCount ==
  (Returned /\ EqualLength) =>
     /\ Cardinality({i \in Positions(eTarget) : eResult[i] = "correct"})
          = Cardinality({i \in Positions(eTarget) : eGuess[i] = eTarget[i]})
     /\ (\A i \in Positions(eTarget) : eResult[i] = "correct") <=> (eGuess = eTarget)

\* an exact match whose letter still has an occurrence left after pass one
C3_Witness ==
  /\ Returned /\ EqualLength
  /\ \E i \in Positions(eGuess) :
        /\ eGuess[i] = eTarget[i] /\ eResult[i] = "correct"
        /\ Occ(eTarget, eGuess[i]) > Occ(eGuess, eGuess[i])

LlamaAlloy == Returned /\ eGuess = LLAMA /\ eTarget = ALLOY

\* C4 as stated: for target ALLOY and guess LLAMA exactly one of the two L
\* positions of the guess is present or correct and the other is absent.
C4_OneLMarked ==
  LlamaAlloy =>
     \E i \in {1, 2} : \E j \in {1, 2} \ {i} :
        eResult[i] \in {"correct", "present"} /\ eResult[j] = "absent"

\* C4 amended: ALLOY has two L's, so both L positions of LLAMA are marked
\* (position 0 present, position 1 correct) and neither is absent; of the two
\* A positions (A occurs once in ALLOY) exactly one is present, the other absent.
C4_BothLMarked ==
  LlamaAlloy =>
     /\ eResult[1] = "present" /\ eResult[2] = "correct"
     /\ eResult[3] = "present" /\ eResult[5] = "absent"

C4_Witness ==
  LlamaAlloy /\ eResult = <<"present", "correct", "present", "absent", "absent">>

\* C9: a guess whose length differs from the target's makes evaluateGuess
\* fail with an explicit error instead of returning a status sequence.
C9_MismatchFailsFast ==
  (ePc # "ready" /\ ~EqualLength) => ePc = "threw"

(***************************************************************************)
(* Properties of dailyIndex (checked under SpecDaily)                      *)
(***************************************************************************)
\* Arithmetic modulo 2^32 on <<high, low>> 16-bit halves, by doubling: the
\* value ((d * 1103515245 + 12345 + h) mod 2^32) mod n of the specification.
Half == 256 * 256

RefOfNat(x) == <<x \div Half, x % Half>>

RefAdd(x, y) ==
  LET low == x[2] + y[2]
  IN  <<(x[1] + y[1] + (low \div Half)) % Half, low % Half>>

RefNeg(x) == RefAdd(<<(Half - 1) - x[1], (Half - 1) - x[2]>>, <<0, 1>>)

RECURSIVE RefTimes(_, _)
RefTimes(k, x) ==
  IF k = 0 THEN <<0, 0>>
  ELSE LET half == RefTimes(k \div 2, x)
       IN  IF k % 2 = 0 THEN RefAdd(half, half) ELSE RefAdd(x, RefAdd(half, half))

RefProduct(d, a) ==
  IF d >= 0 THEN RefTimes(d, RefOfNat(a)) ELSE RefNeg(RefTimes(0 - d, RefOfNat(a)))

RECURSIVE RefHash(_, _)
RefHash(codes, k) ==
  IF k = 0 THEN <<0, 0>>
  ELSE RefAdd(RefTimes(31, RefHash(codes, k - 1)), RefOfNat(codes[k]))

RefMod(x, n) == ((x[1] % n) * (Half % n) + x[2]) % n

RefIndex(d, lang, n) ==
  RefMod(RefAdd(RefAdd(RefProduct(d, 1103515245), RefOfNat(12345)),
                RefHash(charCodes[lang], Len(charCodes[lang]))), n)

Calls == 1..Len(dCalls)

\* C5: for a fixed non-empty list and language, two clock readings within
\* the same UTC day give the same index.
C5_SameDaySameIndex ==
  Len(dWords) > 0 =>
     \A i, j \in Calls :
        dCalls[i].at.day = dCalls[j].at.day => dCalls[i].index = dCalls[j].index

\* two calls at different times of one day, on a list that has a choice
C5_Witness ==
  /\ Len(dWords) > 1 /\ Len(dCalls) = 2
  /\ dCalls[1].at.day = dCalls[2].at.day
  /\ dCalls[1].at.ms < MsPerDay \div 2 /\ dCalls[2].at.ms >= MsPerDay \div 2
  /\ dCalls[1].index = dCalls[2].index

\* C6: for every non-empty list, language tag and day number, negative ones
\* included, the index is an integer in [0, words.length) and equals
\* ((dayNumber * 1103515245 + 12345 + h) mod 2^32) mod words.length.
C6_IndexInRange ==
  Len(dWords) > 0 =>
     \A i \in Calls :
        /\ dCalls[i].index \in 0..(Len(dWords) - 1)
        /\ dCalls[i].index = RefIndex(dCalls[i].at.day - EpochDay, dLang, Len(dWords))

\* a day before the epoch whose mix has its top bit set
C6_Witness ==
  /\ Len(dWords) > 1
  /\ \E i \in Calls :
        /\ dCalls[i].at.day < EpochDay
        /\ mixOf(dCalls[i].at, dLang)[4] >= 128
        /\ dCalls[i].index \in 1..(Len(dWords) - 1)

\* C8: given an empty list dailyIndex fails with an explicit EmptyListError
\* and never returns an undefined or non-integer index.
C8_EmptyListError ==
  Len(dWords) = 0 => \A i \in Calls : dCalls[i].index = "EmptyListError"

(***************************************************************************)
(* Properties of the game session (checked under Spec)                     *)
(***************************************************************************)
\* C7: whenever a game is shown, targetWord is the word dailyIndex selects
\* from the current language's list for the current UTC day, also after the
\* UTC day changes while the page stays open.  (Stated here for the states
\* in which the current language has words to select from.)
C7_TargetIsDailyWord ==
  (Rendered /\ Len(listFor(currentLang)) > 0) => targetWord = pickWord(currentLang)

\* C10: every guess stored in attempts has the length of targetWord.
C10_AttemptsFullLength ==
  \A i \in 1..Len(attempts) : Len(attempts[i]) = Len(targetWord)

\* guesses of a two-letter game played after the day of the three-letter
\* word, stored and read back by a reload
C10_Witness ==
  /\ now.day > FirstDay /\ currentLang = "en" /\ Len(targetWord) = 2
  /\ Len(attempts) >= 2 /\ currentGuess # <<>>
  /\ storage # <<>> /\ storage[1].attempts = attempts
  /\ toast = ""

(***************************************************************************)
(* Properties of computeStatuses (checked under SpecPure and SpecRound)    *)
(***************************************************************************)
\* absent < present < correct
Rank(st) == IF st = "correct" THEN 3 ELSE IF st = "present" THEN 2 ELSE 1

\* the places <<k, i>> of the history: position i of attempt k
Places(atts) == UNION {{<<k, i>> : i \in 1..Len(atts[k])} : k \in 1..Len(atts)}

LettersOf(atts) == {atts[pl[1]][pl[2]] : pl \in Places(atts)}

\* the statuses evaluateGuess gave letter l anywhere in the history
Observed(atts, target, l) ==
  {evaluateGuess(atts[pl[1]], target)[pl[2]] :
     pl \in {q \in Places(atts) : atts[q[1]][q[2]] = l}}

Strongest(S) ==
  IF "correct" \in S THEN "correct" ELSE IF "present" \in S THEN "present" ELSE "absent"

StrongestMap(atts, target) ==
  [l \in LettersOf(atts) |-> Strongest(Observed(atts, target, l))]

Reordered(atts, p) == [k \in 1..Len(atts) |-> atts[p[k]]]

HintCalls == 1..Len(hCalls)

\* C11: computeStatuses gives every letter of the history the strongest
\* status evaluateGuess gave it at any position of any attempt (absent <
\* present < correct), and so gives the same map for every order of the
\* attempts.
C11_StrongestStatus ==
  \A c \in HintCalls :
     /\ DOMAIN hCalls[c] = LettersOf(attempts)
     /\ \A l \in LettersOf(attempts) :
           hCalls[c][l] = StrongestMap(attempts, targetWord)[l]
     /\ \A p \in Permutations(1..Len(attempts)) :
           LET other == computeStatuses(Reordered(attempts, p), targetWord)
           IN  /\ DOMAIN other = DOMAIN hCalls[c]
               /\ \A l \in DOMAIN other : other[l] = hCalls[c][l]

\* a letter that is correct and absent in the first attempt and present in
\* the second, next to a letter seen as present only
C11_Witness ==
  /\ targetWord = <<"A", "L">>
  /\ attempts = <<<<"A", "A">>, <<"L", "A">>>>
  /\ hCalls # <<>>
  /\ hCalls[1]["A"] = "correct" /\ hCalls[1]["L"] = "present"

\* a guess was accepted: attempts grew by one guess in the same game
GuessAccepted ==
  /\ targetWord' = targetWord
  /\ Len(attempts') = Len(attempts) + 1
  /\ SubSeq(attempts', 1, Len(attempts)) = attempts

\* C12: within one game every accepted guess keeps or raises each letter's
\* keyboard hint in the order absent < present < correct; a hint never
\* goes from correct to present or absent, nor from present to absent.
C12_HintsNeverWeaken ==
  [][GuessAccepted =>
       \A l \in DOMAIN keyHints :
          l \in DOMAIN keyHints' /\ Rank(keyHints'[l]) >= Rank(keyHints[l])]_vars

\* a key that stays correct after a later guess in which its letter was
\* not correct anywhere
C12_Witness ==
  /\ Len(attempts) >= 2 /\ ~gameOver
  /\ \E l \in DOMAIN keyHints :
        /\ keyHints[l] = "correct"
        /\ l \in LettersOf(<<attempts[Len(attempts)]>>)
        /\ "correct" \notin Observed(<<attempts[Len(attempts)]>>, targetWord, l)

(***************************************************************************)
(* Properties of submitGuess and of the session (checked under Spec)       *)
(***************************************************************************)
LastAttempt == attempts[Len(attempts)]

TooShort == Len(currentGuess) # Len(targetWord)

NotInWordList ==
  /\ ~TooShort
  /\ allowedSetFor(currentLang) # {}
  /\ currentGuess \notin allowedSetFor(currentLang)
  /\ currentGuess # targetWord

\* Enter pressed in a running game on a guess that is rejected
RejectedEnter == ClickEnter /\ ~gameOver /\ (TooShort \/ NotInWordList)

RejectionLeavesState ==
  RejectedEnter =>
     /\ UNCHANGED <<attempts, currentGuess, gameOver, storage, targetWord>>
     /\ toast' = IF TooShort THEN "Not enough letters" ELSE "Not in word list"

C13_RejectedWitness ==
  /\ toast = "Not in word list" /\ NotInWordList
  /\ storage[1].currentGuess = currentGuess

\* the page shows a game of the current language whose last save was made
\* on the current UTC day
SavedToday ==
  /\ Rendered /\ keyboard = currentLang /\ Len(listFor(currentLang)) > 0
  /\ storage # <<>> /\ storage[1].dayId = dayId(now) /\ storage[1].lang = currentLang

\* C14: a reload on the UTC day of the last save restores currentLang,
\* targetWord, attempts, currentGuess and gameOver exactly as they were
\* before the reload.
C14_ReloadRestores ==
  [][(SavedToday /\ Reload) =>
        UNCHANGED <<currentLang, targetWord, attempts, currentGuess, gameOver>>]_vars

\* the same for the games whose target is still the word of the day
C14_ReloadRestoresDailyWord ==
  [][(SavedToday /\ targetWord = pickWord(currentLang) /\ Reload) =>
        UNCHANGED <<currentLang, targetWord, attempts, currentGuess, gameOver>>]_vars

\* startGame runs for a language whose word list is empty: on a reload, or
\* on a language switch that is carried out
StartsWithoutWords ==
  /\ Len(listFor(currentLang')) = 0
  /\ Reload \/ (ClickLang /\ currentLang' # currentLang)

\* C15: when the word list of the language being started is empty the
\* session shows the no-puzzle state 'No words loaded' and starts no game.
C15_NoWordsNoGame ==
  [][StartsWithoutWords =>
        /\ toast' = "No words loaded"
        /\ attempts' = <<>> /\ currentGuess' = <<>> /\ ~gameOver'
        /\ UNCHANGED storage]_vars

\* the part of C15 that concerns the first load and reloads only
C15_ReloadWithoutWords ==
  [][(Reload /\ Len(listFor(currentLang')) = 0) =>
        /\ toast' = "No words loaded"
        /\ targetWord' = <<>> /\ attempts' = <<>> /\ currentGuess' = <<>> /\ ~gameOver'
        /\ UNCHANGED storage]_vars

C17_GameOverIffEnded ==
  /\ gameOver <=> (attempts # <<>> /\ (LastAttempt = targetWord \/ Len(attempts) = maxAttempts))
  /\ \A i \in 1..Len(attempts) : attempts[i] = targetWord => i = Len(attempts)

\* a game lost on the last attempt, as stored
C17_Witness ==
  /\ gameOver /\ Len(attempts) = maxAttempts /\ LastAttempt # targetWord
  /\ toast = "Game over!" /\ storage[1].gameOver

\* C18: once gameOver is true, letter keys, Del and Enter, on screen or
\* physical, leave attempts, currentGuess, targetWord, gameOver and the
\* persisted state unchanged; only a language switch or a reload changes
\* them, by starting a game.
C18_FrozenAfterEnd ==
  [][gameOver =>
        /\ (ClickLetter \/ ClickDel \/ ClickEnter \/ Keydown) =>
              UNCHANGED <<attempts, currentGuess, targetWord, gameOver, storage>>
        /\ UNCHANGED <<attempts, currentGuess, targetWord, gameOver>>
              \/ (ClickLang \/ Reload)]_vars

\* a game won before the last attempt, so that room for guesses is left
C18_Witness ==
  /\ gameOver /\ Len(attempts) < maxAttempts - 1 /\ Len(attempts) >= 2
  /\ LastAttempt = targetWord /\ Len(targetWord) >= 2
  /\ currentGuess = <<>> /\ toast = "You win!"

\* C19: attempts never holds more than maxAttempts guesses and
\* currentGuess is never longer than targetWord.
C19_WithinLimits ==
  Len(attempts) <= maxAttempts /\ Len(currentGuess) <= Len(targetWord)

\* the last row of the board filled to the end
C19_Witness ==
  /\ Len(attempts) = maxAttempts - 1 /\ ~gameOver
  /\ Len(targetWord) >= 2 /\ Len(currentGuess) = Len(targetWord)
  /\ storage[1].currentGuess = currentGuess

(***************************************************************************)
(* What startGame restores (checked under Spec)                            *)
(***************************************************************************)
\* startGame runs: on a reload, or on a language switch that is carried out
GameStarts == Reload \/ (ClickLang /\ currentLang' # currentLang)

\* the save was made on the current UTC day, for the language being
\* started, with the word of the day as its solution
SaveIsTodays ==
  /\ storage # <<>>
  /\ storage[1].dayId = dayId(now)
  /\ storage[1].lang = currentLang'
  /\ storage[1].solution = pickWord(currentLang')

\* startGame restores the save only if it is today's, and otherwise starts
\* a fresh game
RestoresOnlyTodaysSave ==
  (GameStarts /\ Len(listFor(currentLang')) > 0) =>
     IF SaveIsTodays
     THEN /\ targetWord' = storage[1].solution
          /\ attempts' = storage[1].attempts
          /\ currentGuess' = storage[1].currentGuess
          /\ gameOver' = storage[1].gameOver
     ELSE /\ targetWord' = pickWord(currentLang')
          /\ attempts' = <<>> /\ currentGuess' = <<>> /\ ~gameOver'

\* no guess of the game that startGame shows was submitted on an earlier day
NoGuessOfEarlierDay ==
  (GameStarts /\ Len(listFor(currentLang')) > 0 /\ attempts' # <<>>) =>
     firstGuessDay' = dayId(now)

\* C20: startGame restores saved progress only if it was saved on the
\* current UTC day, for the current language and with today's word as its
\* solution, and otherwise starts a fresh game; so guesses submitted on an
\* earlier UTC day never appear in a game started on a later UTC day.
C20_NoProgressOfEarlierDay ==
  [][RestoresOnlyTodaysSave /\ NoGuessOfEarlierDay]_vars

\* the first half of C20 alone
C20_RestoreCondition ==
  [][RestoresOnlyTodaysSave]_vars

(***************************************************************************)
(* The language switch (checked under Spec)                                *)
(***************************************************************************)
HasProgress == Len(attempts) > 0 \/ Len(currentGuess) > 0

\* the game of the language now current is a fresh game on the day's word
FreshGame ==
  /\ targetWord' = pickWord(currentLang')
  /\ attempts' = <<>> /\ currentGuess' = <<>> /\ ~gameOver'

SwitchBehaviour ==
  ClickLang =>
     /\ (~HasProgress \/ gameOver) => currentLang' # currentLang
     /\ currentLang' # currentLang => FreshGame
     /\ currentLang' = currentLang => UNCHANGED sessionVars

\* C21: a language switch that is carried out toggles currentLang and
\* always starts a fresh game for the new language (its daily word, no
\* attempts, empty currentGuess, gameOver false); a declined switch leaves
\* the whole state unchanged.
C21_SwitchStartsFresh ==
  [][SwitchBehaviour]_vars

\* the same where both languages have a word list
C21_SwitchBetweenLoadedLists ==
  [][(Len(listFor("en")) > 0 /\ Len(listFor("uk")) > 0) => SwitchBehaviour]_vars

(***************************************************************************)
(* Every available occurrence is marked (checked under SpecEval)           *)
(***************************************************************************)
Min(a, b) == IF a < b THEN a ELSE b

\* C22: for guess and target of equal length and every letter, the
\* positions of that letter marked correct or present number exactly
\* min(occurrences in guess, occurrences in target).
C22_MarksEqualMin ==
  (Returned /\ EqualLength) =>
     \A ch \in {eGuess[i] : i \in Positions(eGuess)} \cup {eTarget[i] : i \in Positions(eTarget)} :
        Cardinality(Marked(eGuess, eResult, ch)) = Min(Occ(eGuess, ch), Occ(eTarget, ch))

\* a letter the target has twice: one occurrence matched exactly, the other
\* found by a misplaced copy, next to a misplaced letter of another kind
C22_Witness ==
  /\ Returned /\ EqualLength
  /\ \E i, j, k \in Positions(eGuess) :
        /\ eGuess[i] = eGuess[j] /\ eGuess[k] # eGuess[i]
        /\ eResult[i] = "correct" /\ eResult[j] = "present" /\ eResult[k] = "present"
        /\ Occ(eTarget, eGuess[i]) = 2 /\ Occ(eGuess, eGuess[i]) = 2

(***************************************************************************)
(* C23: the service worker's fetch handler                                 *)
(***************************************************************************)
Requests == 1..Len(swReqs)

\* a request that is not a GET gets no response from the worker and
\* causes no fetch by it
NonGetNotIntercepted ==
  \A i \in Requests :
     swReqs[i].method # "GET" =>
        /\ swReqs[i].pc = "ignored" /\ swReqs[i].resp = <<>>
        /\ ~swReqs[i].net /\ swReqs[i].src = "none"

\* a match in the cache is the response, and fetch is not called
HitServedFromCache ==
  \A i \in Requests :
     swReqs[i].held # <<>> =>
        /\ swReqs[i].resp = swReqs[i].held
        /\ swReqs[i].src = "cache" /\ ~swReqs[i].net

\* a GET that found no match calls fetch
MissContactsNetwork ==
  \A i \in Requests :
     (swReqs[i].method = "GET" /\ swReqs[i].held = <<>>
        /\ swReqs[i].pc \in {"fetching", "answered"}) => swReqs[i].net

\* C23 (as stated): GET requests are served cache-first: a match in the
\* cache is returned without contacting the network; on a miss the response
\* is fetched from the network, a copy is stored, and a later identical GET
\* is then served from the cache.  Non-GET requests are never intercepted.
C23_CacheFirst ==
  /\ NonGetNotIntercepted
  /\ HitServedFromCache
  /\ MissContactsNetwork
  /\ \A i \in Requests :
        (swReqs[i].afterAnswered # {} /\ swReqs[i].pc = "answered") =>
           swReqs[i].src = "cache" /\ ~swReqs[i].net

\* C23 (amended): as above, but a later identical GET is served from the
\* cache once the put of the copy has completed; a response fetched from
\* the network is returned with a put of its copy started, and when the
\* fetch fails the cached ./index.html is the response and nothing is stored.
C23_CacheFirstOncePutCompleted ==
  /\ NonGetNotIntercepted
  /\ HitServedFromCache
  /\ MissContactsNetwork
  /\ \A i \in Requests :
        /\ (swReqs[i].afterStored # {} /\ swReqs[i].pc = "answered") =>
              swReqs[i].src = "cache" /\ ~swReqs[i].net
        /\ swReqs[i].stored =>
              /\ swReqs[i].src = "network"
              /\ swReqs[i].url \in DOMAIN swCache
        /\ swReqs[i].src = "network" =>
              /\ swReqs[i].resp # <<>> /\ swReqs[i].resp[1].url = swReqs[i].url
              /\ swReqs[i].net
        /\ swReqs[i].src = "fallback" =>
              /\ swReqs[i].resp = cachesMatch(swCache, INDEX)
              /\ ~swReqs[i].stored
              /\ ~\E pt \in swPuts : pt.req = i

\* a URL that install did not cache is fetched, its copy is stored, and a
\* later GET of it is answered from the cache
C23_Witness ==
  \E i \in Requests :
     /\ swReqs[i].url \notin ASSETS
     /\ swReqs[i].afterStored # {}
     /\ swReqs[i].src = "cache" /\ ~swReqs[i].net
     /\ \E j \in Requests : swReqs[j].src = "fallback"

(***************************************************************************)
(* C24: fetchRemote's retries                                              *)
(***************************************************************************)
Tries == {k \in 1..Len(frLog) : frLog[k].cause \in {"call", "retry"}}

Errors == {k \in 1..Len(frLog) : frLog[k].outcome = "error"}

\* a response that is neither 200 nor a redirect to follow
HttpFailure(k) ==
  /\ frLog[k].outcome = "response" /\ frLog[k].status # 200
  /\ ~followsRedirect(frLog[k].status, frLog[k].location)

\* C24: fetchRemote retries only when the request itself errors, makes at
\* most 3 attempts in total, and rejects with the error after the third
\* failed attempt; a non-200, non-redirect status rejects at once, with no
\* retry.  (A request that follows a redirect continues the attempt it
\* belongs to.)
C24_RetriesOnlyOnError ==
  LET n == Len(frLog)
  IN  /\ \A k \in 1..n : frLog[k].attempt \in 1..3
      /\ Cardinality(Tries) <= 3 /\ Cardinality(Errors) <= 3
      /\ \A k \in 2..n :
            /\ frLog[k].cause = "retry" =>
                  /\ frLog[k-1].outcome = "error"
                  /\ frLog[k].url = frLog[k-1].url
                  /\ frLog[k].attempt = frLog[k-1].attempt + 1
            /\ frLog[k].cause = "redirect" =>
                  /\ k-1 \in Redirects
                  /\ frLog[k].url = frLog[k-1].location[1]
                  /\ frLog[k].attempt = frLog[k-1].attempt
            /\ frLog[k].cause # "call"
      /\ \A k \in Errors :
            \/ k = n /\ frPc = "waiting" /\ frLog[k].attempt < 3
            \/ k = n /\ frPc = "rejected" /\ frLog[k].attempt = 3
                     /\ Cardinality(Errors) = 3
            \/ k < n /\ frLog[k+1].cause = "retry"
      /\ \A k \in 1..n :
            HttpFailure(k) => k = n /\ frPc = "rejected"

\* three requests errored, one of them after a redirect, and the call is
\* rejected
C24_Witness ==
  /\ frPc = "rejected"
  /\ Cardinality(Errors) = 3
  /\ Redirects # {}
  /\ frLog[Len(frLog)].outcome = "error"

\* a 404 after an errored first request rejects the call
C24_HttpFailureWitness ==
  /\ frPc = "rejected"
  /\ HttpFailure(Len(frLog))
  /\ Errors # {}

====
